---- MODULE Spec2Model ----
(***************************************************************************)
(* A model of label.py: the Labeler scans a directory tree for .json       *)
(* reports, runs process_json on each of them in a thread pool, collects   *)
(* the result tuples in completion order, sorts them by file name and      *)
(* writes a comma separated table.                                         *)
(***************************************************************************)
EXTENDS Bags, FiniteSets, Integers, Sequences, TLC

(***************************************************************************)
(* Bounds of the model.                                                    *)
(***************************************************************************)
\* Largest number of files in the input directory tree.
MaxFiles == 3
\* Largest size of the worker pool (ThreadPoolExecutor's max_workers).
MaxWorkers == 2
\* Largest number of environment failures (I/O errors, classifier failures)
\* in one run.
MaxFaults == 1

(***************************************************************************)
(* Python values.  Every value is a record of the same shape: t is the     *)
(* type, s the text of a str, n the number of an int, kids the items of a  *)
(* dict as <<key, value>> pairs.  JSON null loads as None.                 *)
(***************************************************************************)
None == [t |-> "none", s |-> "", n |-> 0, kids |-> {}]
Str(x) == [t |-> "str", s |-> x, n |-> 0, kids |-> {}]
Num(x) == [t |-> "num", s |-> "", n |-> x, kids |-> {}]
Dict(items) == [t |-> "dict", s |-> "", n |-> 0, kids |-> items]
List == [t |-> "list", s |-> "", n |-> 0, kids |-> {}]

\* Python's truth value of v, as `v or ''` tests it.
Truthy(v) ==
  CASE v.t = "none" -> FALSE
    [] v.t = "str" -> v.s # ""
    [] v.t = "num" -> v.n # 0
    [] v.t = "dict" -> v.kids # {}
    [] OTHER -> FALSE

\* The outcome of an expression: a value, or the exception it raised.
Ok(v) == [exc |-> "none", val |-> v]
Raise(e) == [exc |-> e, val |-> None]

\* data[key]: the item of a dict, KeyError when the dict has no such key,
\* TypeError when data is not a dict (a str, an int, a list or None cannot
\* be subscripted with a str).
GetItem(data, key) ==
  IF data.t # "dict" THEN Raise("TypeError")
  ELSE IF \E p \in data.kids : p[1] = key
       THEN Ok((CHOOSE p \in data.kids : p[1] = key)[2])
       ELSE Raise("KeyError")

\* data[k1][k2]...[kn], evaluated left to right; the first exception ends it.
RECURSIVE GetPath(_, _)
GetPath(data, keys) ==
  IF keys = <<>> THEN Ok(data)
  ELSE LET r == GetItem(data, Head(keys))
       IN  IF r.exc # "none" THEN r ELSE GetPath(r.val, Tail(keys))

(***************************************************************************)
(* Text.                                                                   *)
(***************************************************************************)
Char(s, i) == SubSeq(s, i, i)

\* The code point order of the characters the model uses.
Ord(c) ==
  CASE c = " " -> 32 [] c = "," -> 44 [] c = "." -> 46 [] c = "/" -> 47
    [] c = "0" -> 48 [] c = "1" -> 49 [] c = "5" -> 53 [] c = "7" -> 55
    [] c = "B" -> 66
    [] c = "a" -> 97 [] c = "b" -> 98 [] c = "c" -> 99 [] c = "d" -> 100
    [] c = "j" -> 106 [] c = "n" -> 110 [] c = "o" -> 111 [] c = "s" -> 115
    [] c = "t" -> 116 [] c = "x" -> 120
    [] OTHER -> 127

\* a < b as Python compares str: by code point, a proper prefix first.
RECURSIVE StrLessFrom(_, _, _)
StrLessFrom(a, b, i) ==
  IF i > Len(b) THEN FALSE
  ELSE IF i > Len(a) THEN TRUE
  ELSE IF Char(a, i) = Char(b, i) THEN StrLessFrom(a, b, i + 1)
  ELSE Ord(Char(a, i)) < Ord(Char(b, i))

StrLess(a, b) == StrLessFrom(a, b, 1)

\* s.endswith(suffix)
EndsWith(s, suffix) ==
  /\ Len(s) >= Len(suffix)
  /\ SubSeq(s, Len(s) - Len(suffix) + 1, Len(s)) = suffix

\* os.path.basename(p): what follows the last "/".
RECURSIVE BasenameFrom(_, _)
BasenameFrom(p, i) ==
  IF i = 0 THEN p
  ELSE IF Char(p, i) = "/" THEN SubSeq(p, i + 1, Len(p))
  ELSE BasenameFrom(p, i - 1)

Basename(p) == BasenameFrom(p, Len(p))

\* os.path.basename(json_file)[:-5]
FileName(json_file) ==
  LET b == Basename(json_file)
  IN  IF Len(b) <= 5 THEN "" ELSE SubSeq(b, 1, Len(b) - 5)

\* s.split(): the maximal runs of non-blank characters.
RECURSIVE SplitFrom(_, _, _)
SplitFrom(s, i, cur) ==
  IF i > Len(s) THEN (IF cur = "" THEN <<>> ELSE <<cur>>)
  ELSE IF Char(s, i) = " "
       THEN (IF cur = "" THEN <<>> ELSE <<cur>>) \o SplitFrom(s, i + 1, "")
       ELSE SplitFrom(s, i + 1, cur \o Char(s, i))

Split(s) == SplitFrom(s, 1, "")

\* str(n) of an int: its decimal text.
Digit(d) == Char("0123456789", d + 1)

RECURSIVE Decimal(_)
Decimal(n) ==
  IF n < 0 THEN "-" \o Decimal(0 - n)
  ELSE IF n < 10 THEN Digit(n)
  ELSE Decimal(n \div 10) \o Digit(n % 10)

\* ",".join(cells)
RECURSIVE Join(_)
Join(cells) ==
  IF cells = <<>> THEN ""
  ELSE IF Len(cells) = 1 THEN cells[1]
  ELSE cells[1] \o "," \o Join(Tail(cells))

\* str(v), for the values the records of the model put under "size".
PyStr(v) ==
  CASE v.t = "str" -> v.s
    [] v.t = "num" -> Decimal(v.n)
    [] v.t = "list" -> "[]"
    [] v.t = "dict" -> "{}"
    [] OTHER -> "None"

\* A total order of paths in which os.walk (top down) lists them: the files
\* of a directory before those of its subdirectories.
Dirname(p) == SubSeq(p, 1, Len(p) - Len(Basename(p)))

WalkBefore(p, q) ==
  \/ StrLess(Dirname(p), Dirname(q))
  \/ Dirname(p) = Dirname(q) /\ StrLess(Basename(p), Basename(q))

RECURSIVE WalkSeq(_)
WalkSeq(paths) ==
  IF paths = {} THEN <<>>
  ELSE LET first == CHOOSE p \in paths : \A q \in paths \ {p} : WalkBefore(p, q)
       IN  <<first>> \o WalkSeq(paths \ {first})

(***************************************************************************)
(* The inputs of a run.                                                    *)
(***************************************************************************)
Config(family, cpu, first_seen, size, md5) ==
  [family |-> family, cpu |-> cpu, first_seen |-> first_seen, size |-> size,
   md5 |-> md5]

AllConfigs ==
  {Config(f, c, s, z, m) : f \in BOOLEAN, c \in BOOLEAN, s \in BOOLEAN,
                           z \in BOOLEAN, m \in BOOLEAN}

\* The content of a file: JSON text (data is what json.load returns),
\* text that is no JSON, or a file that cannot be opened.
Json(data) == [kind |-> "json", data |-> data]
Malformed == [kind |-> "text", data |-> None]
Unreadable == [kind |-> "unreadable", data |-> None]

\* What the environment does to the task of one file: the outcome of
\* writing the temporary file (tmpw), the classifier's exit and output (av,
\* out), the outcome of removing the temporary file (rm), and whether an
\* error escapes process_json (raises).
Env(tmpw, av, out, rm, raises) ==
  [tmpw |-> tmpw, av |-> av, out |-> out, rm |-> rm, raises |-> raises]

Nominal == Env("ok", "zero", "s1 fam", "ok", FALSE)

Faults(e) ==
  (IF e.tmpw # "ok" THEN 1 ELSE 0) + (IF e.av # "zero" THEN 1 ELSE 0)
  + (IF e.rm # "ok" THEN 1 ELSE 0) + (IF e.raises THEN 1 ELSE 0)

\* The environments that differ in what process_json can observe: after a
\* failed write of the temporary file there is no classifier call and no
\* removal; without family labeling there is no enrichment at all.
EnvsFor(family, content, tmpws, avs, outs, rms) ==
  IF ~family \/ content.kind # "json" THEN {Nominal}
  ELSE {Env(w, "zero", "s1 fam", "ok", FALSE) : w \in tmpws \ {"ok"}}
       \cup {Env("ok", "zero", o, r, FALSE) : o \in outs, r \in rms}
       \cup {Env("ok", a, "", r, FALSE) : a \in avs \ {"zero"}, r \in rms}

(***************************************************************************)
(* The state of a run.                                                     *)
(***************************************************************************)
VARIABLES
  inputKind,  \* what config.input_dir names: "dir", "file" or "missing"
  tree,       \* the files below the input directory: path -> content
  env,        \* what the environment does to each file's task: path -> Env
  config,     \* the five toggles of Config
  poolSize,   \* the number of worker threads of the executor
  phase,      \* where the main thread is
  file_list,  \* Labeler.file_list
  tasks,      \* the futures of label_files, in the order submitted
  order,      \* the indices of the futures in the order collected
  labels,     \* the list labels of label_files
  output,     \* the lines of the file at config.output_path (<<>>: no file)
  log,        \* the entries of the file at config.log_path, as a bag
  tmpFiles,   \* the paths of the temporary files that exist
  console,    \* what the run printed
  run,        \* 1 in the first run over the tree, 2 in a second one
  prevOutput  \* the lines of the output file when the second run began

vars ==
  <<inputKind, tree, env, config, poolSize, phase, file_list, tasks, order,
    labels, output, log, tmpFiles, console, run, prevOutput>>

inputs == <<inputKind, tree, env, config, poolSize>>

\* The tuple process_json returns.
Label(file_name, family, cpu, first_seen, size, md5) ==
  [file_name |-> file_name, family |-> family, cpu |-> cpu,
   first_seen |-> first_seen, size |-> size, md5 |-> md5]

NoLabel == Label("", None, None, None, None, None)

\* A future: pc is the place of its task in process_json ("queued" before a
\* worker takes it, "done" once it returned or raised), family the local
\* variable family, res the tuple returned, exc whether the task raised.
Task(pc, family, res, exc) ==
  [pc |-> pc, family |-> family, res |-> res, exc |-> exc]

LogEntry(msg, json_file) == [msg |-> msg, file |-> json_file]

Logged(entries) == log (+) entries

\* TmpPath as it would be if the temporary file were named after the file
\* name of the report.
TmpPathByName(json_file) == FileName(json_file) \o ".tmp"

\* json_file + ".tmp"
TmpPath(json_file) == json_file \o ".tmp"

\* The files os.walk finds below the input directory.
FsPaths == DOMAIN tree \cup tmpFiles

(***************************************************************************)
(* Labeler.__init__ and get_all_files_in_directory.                        *)
(***************************************************************************)
\* IsDir as it would be without the test.
IsDirAlways(kind) == TRUE

\* Whether __init__ goes on: the test of os.path.isdir(config.input_dir).
IsDir(kind) == kind = "dir"

Construct ==
  /\ phase = "start"
  /\ IF IsDir(inputKind)
     THEN /\ phase' = "ready"
          /\ console' = console
     ELSE /\ phase' = "exited"
          /\ console' = Append(console, "Error: Input path must be a directory.")
  /\ UNCHANGED <<inputs, file_list, tasks, order, labels, output, log,
                 tmpFiles, run, prevOutput>>

\* Discovered as it would be without the test of the suffix.
DiscoveredAll(paths) == WalkSeq(paths)

\* The paths get_all_files_in_directory keeps: those ending in ".json".
Discovered(paths) == SelectSeq(WalkSeq(paths), LAMBDA p : EndsWith(p, ".json"))

\* os.walk of a path that is no directory yields nothing.
Discover ==
  /\ phase = "ready"
  /\ file_list' = file_list \o
                  (IF inputKind = "dir" THEN Discovered(FsPaths) ELSE <<>>)
  /\ phase' = "pool"
  /\ UNCHANGED <<inputs, tasks, order, labels, output, log, tmpFiles, console,
                 run, prevOutput>>

(***************************************************************************)
(* label_files: the executor.                                              *)
(***************************************************************************)
\* executor.submit(self.process_json, json_file), for the next path.
Submit ==
  /\ phase = "pool"
  /\ Len(tasks) < Len(file_list)
  /\ tasks' = Append(tasks, Task("queued", None, NoLabel, FALSE))
  /\ UNCHANGED <<inputs, phase, file_list, order, labels, output, log,
                 tmpFiles, console, run, prevOutput>>

Running == {i \in DOMAIN tasks : tasks[i].pc \notin {"queued", "done"}}

\* Return as it would be without the handlers at the end of process_json: a
\* task that got nothing from its file ends with the exception.
ReturnUnhandled(i, family, cpu, first_seen, size, md5) ==
  [tasks EXCEPT ![i] =
     IF <<family, cpu, first_seen, size, md5>> = <<None, None, None, None, None>>
     THEN Task("done", None, NoLabel, TRUE)
     ELSE Task("done", family,
               Label(FileName(file_list[i]), family, cpu, first_seen, size, md5),
               FALSE)]

\* The return of process_json: the future of task i completes with the tuple.
Return(i, family, cpu, first_seen, size, md5) ==
  [tasks EXCEPT ![i] =
     Task("done", family,
          Label(FileName(file_list[i]), family, cpu, first_seen, size, md5),
          FALSE)]

TaskFrame == UNCHANGED <<inputs, phase, file_list, order, labels, output,
                         console, run, prevOutput>>

(***************************************************************************)
(* process_json, the task of one file, in the steps at which it touches    *)
(* the file system or the classifier.                                      *)
(***************************************************************************)
\* A worker takes task i from the queue, opens the file and parses it.  A
\* file that is no JSON or cannot be read is logged by the handlers at the
\* end of process_json, which then returns the tuple with nothing in it.
\* An error that escapes process_json (one that is no Exception, or one
\* raised by a handler) makes the future hold the exception.
TaskStart(i) ==
  LET json_file == file_list[i]
      content == tree[json_file]
  IN  /\ phase \in {"pool", "raising"}
      /\ tasks[i].pc = "queued"
      /\ Cardinality(Running) < poolSize
      /\ IF env[json_file].raises
         THEN /\ tasks' = [tasks EXCEPT ![i] = Task("done", None, NoLabel, TRUE)]
              /\ log' = log
         ELSE IF content.kind = "json"
         THEN /\ tasks' = [tasks EXCEPT ![i].pc = "loaded"]
              /\ log' = log
         ELSE IF content.kind = "text"
         THEN /\ tasks' = Return(i, None, None, None, None, None)
              /\ log' = Logged(SetToBag({LogEntry("Error decoding JSON file", json_file)}))
         ELSE /\ tasks' = Return(i, None, None, None, None, None)
              /\ log' = Logged(SetToBag({LogEntry("Error processing JSON file", json_file)}))
      /\ tmpFiles' = tmpFiles
      /\ TaskFrame

\* Enriches as it would be if the enrichment did not look at the toggle.
EnrichesAlways(cfg) == TRUE

\* if self.config.family: whether a task enriches its record.
Enriches(cfg) == cfg.family

\* With family labeling: convert_to_one_line reads the file again, and the
\* line is written to the temporary file.  open(..., "w") is outside the
\* try of the classifier call: when it or the write raises, the handler at
\* the end of process_json logs it and the task returns.
TaskWriteTmp(i) ==
  LET json_file == file_list[i]
      tmpw == env[json_file].tmpw
  IN  /\ phase \in {"pool", "raising"}
      /\ tasks[i].pc = "loaded"
      /\ Enriches(config)
      /\ CASE tmpw = "ok" ->
                /\ tasks' = [tasks EXCEPT ![i].pc = "tmp"]
                /\ tmpFiles' = tmpFiles \cup {TmpPath(json_file)}
                /\ log' = log
           [] tmpw = "reread_fail" ->
                /\ tasks' = [tasks EXCEPT ![i].pc = "ran"]
                /\ tmpFiles' = tmpFiles
                /\ log' = Logged(SetToBag({LogEntry("Error reading JSON file", json_file),
                                           LogEntry("Processing", json_file)}))
           [] tmpw = "open_fail" ->
                /\ tasks' = Return(i, None, None, None, None, None)
                /\ tmpFiles' = tmpFiles
                /\ log' = Logged(SetToBag({LogEntry("Error processing JSON file", json_file)}))
           [] OTHER ->
                /\ tasks' = Return(i, None, None, None, None, None)
                /\ tmpFiles' = tmpFiles \cup {TmpPath(json_file)}
                /\ log' = Logged(SetToBag({LogEntry("Error processing JSON file", json_file)}))
      /\ TaskFrame

\* SecondToken as it would be with index 0.
FirstToken(stdout) ==
  LET tokens == Split(stdout)
  IN  IF Len(tokens) >= 1 THEN Ok(Str(tokens[1])) ELSE Raise("IndexError")

\* family = result.stdout.split()[1]: the second token, IndexError when
\* there are fewer than two.
SecondToken(stdout) ==
  LET tokens == Split(stdout)
  IN  IF Len(tokens) >= 2 THEN Ok(Str(tokens[2])) ELSE Raise("IndexError")

\* subprocess.run(..., check=True) and the handlers around it: the family
\* and the entry logged, for the classifier's exit and output.
Classified(json_file, av, stdout) ==
  IF av = "zero"
  THEN LET r == SecondToken(stdout)
       IN  IF r.exc = "none"
           THEN [family |-> r.val, logged |-> EmptyBag]
           ELSE [family |-> None,
                 logged |-> SetToBag({LogEntry("AVClass processing error", json_file)})]
  ELSE IF av = "nonzero"
  THEN [family |-> None,
        logged |-> SetToBag({LogEntry("AVClass command execution error", json_file)})]
  ELSE [family |-> None,
        logged |-> SetToBag({LogEntry("AVClass processing error", json_file)})]

\* The classifier call and the finally clause that removes the temporary
\* file.  When os.remove raises, the handler at the end of process_json
\* logs it and the task returns with the family it has.
TaskClassify(i) ==
  LET json_file == file_list[i]
      c == Classified(json_file, env[json_file].av, env[json_file].out)
  IN  /\ phase \in {"pool", "raising"}
      /\ tasks[i].pc = "tmp"
      /\ IF env[json_file].rm = "ok"
         THEN /\ tasks' = [tasks EXCEPT ![i].pc = "ran", ![i].family = c.family]
              /\ tmpFiles' = tmpFiles \ {TmpPath(json_file)}
              /\ log' = Logged(c.logged)
         ELSE /\ tasks' = Return(i, c.family, None, None, None, None)
              /\ tmpFiles' = tmpFiles
              /\ log' = Logged(c.logged (+)
                               SetToBag({LogEntry("Error processing JSON file", json_file)}))
      /\ TaskFrame

\* Field as it would be if KeyError ended the extraction like any other
\* exception.
FieldKeyErrorEnds(acc, name, requested, r) ==
  IF acc.exc # "none" \/ ~requested THEN acc
  ELSE IF r.exc = "none" THEN [acc EXCEPT ![name] = r.val]
  ELSE [acc EXCEPT !.exc = r.exc]

\* One field of the record: looked up when requested; KeyError is passed
\* over, any other exception ends the extraction.
Field(acc, name, requested, r) ==
  IF acc.exc # "none" \/ ~requested THEN acc
  ELSE IF r.exc = "none" THEN [acc EXCEPT ![name] = r.val]
  ELSE IF r.exc = "KeyError" THEN acc
  ELSE [acc EXCEPT !.exc = r.exc]

CpuPath == <<"additional_info", "gandelf", "header", "machine">>

\* The four lookups of process_json, in the order of the code.
ExtractFields(cfg, data) ==
  LET a0 == [cpu |-> None, first_seen |-> None, size |-> None, md5 |-> None,
             exc |-> "none"]
      a1 == Field(a0, "cpu", cfg.cpu, GetPath(data, CpuPath))
      a2 == Field(a1, "first_seen", cfg.first_seen, GetItem(data, "first_seen"))
      a3 == Field(a2, "size", cfg.size, GetItem(data, "size"))
  IN  Field(a3, "md5", cfg.md5, GetItem(data, "md5"))

\* The lookups of the requested fields and the return.  An exception that
\* is no KeyError is logged by the handler at the end of process_json.
TaskExtract(i) ==
  LET json_file == file_list[i]
      x == ExtractFields(config, tree[json_file].data)
  IN  /\ phase \in {"pool", "raising"}
      /\ tasks[i].pc = IF Enriches(config) THEN "ran" ELSE "loaded"
      /\ tasks' = Return(i, tasks[i].family, x.cpu, x.first_seen, x.size, x.md5)
      /\ log' = IF x.exc = "none" THEN log
                ELSE Logged(SetToBag({LogEntry("Error processing JSON file", json_file)}))
      /\ tmpFiles' = tmpFiles
      /\ TaskFrame

(***************************************************************************)
(* label_files: collecting, sorting and writing.                           *)
(***************************************************************************)
\* Collect as it would be if the result of a file that did not parse were
\* dropped.
CollectParsedOnly(i) ==
  /\ phase = "pool"
  /\ Len(tasks) = Len(file_list)
  /\ tasks[i].pc = "done"
  /\ \A k \in DOMAIN order : order[k] # i
  /\ order' = Append(order, i)
  /\ labels' = IF tree[file_list[i]].kind = "json"
               THEN Append(labels, tasks[i].res) ELSE labels
  /\ UNCHANGED <<inputs, phase, file_list, tasks, output, log, tmpFiles,
                 console, run, prevOutput>>

\* One turn of the loop over as_completed(futures), which begins once every
\* task is submitted: future.result() of a completed future returns the
\* tuple, which is appended to labels, or raises what the task raised.
Collect(i) ==
  /\ phase = "pool"
  /\ Len(tasks) = Len(file_list)
  /\ tasks[i].pc = "done"
  /\ \A k \in DOMAIN order : order[k] # i
  /\ IF tasks[i].exc
     THEN /\ phase' = "raising"
          /\ UNCHANGED <<order, labels>>
     ELSE /\ phase' = phase
          /\ order' = Append(order, i)
          /\ labels' = Append(labels, tasks[i].res)
  /\ UNCHANGED <<inputs, file_list, tasks, output, log, tmpFiles, console, run,
                 prevOutput>>

\* PoolExit as it would be if the loop and the executor did not wait for the
\* tasks.
PoolExitNoWait ==
  /\ Len(tasks) = Len(file_list)
  /\ phase = "pool"
  /\ phase' = "joined"
  /\ UNCHANGED <<inputs, file_list, tasks, order, labels, output, log,
                 tmpFiles, console, run, prevOutput>>

\* The end of the with statement: executor.shutdown(wait=True) returns when
\* every task has ended; an exception raised in the loop then leaves
\* label_files and ends the run.
PoolExit ==
  /\ Len(tasks) = Len(file_list)
  /\ \A i \in DOMAIN tasks : tasks[i].pc = "done"
  /\ IF phase = "pool" THEN Len(order) = Len(tasks) ELSE phase = "raising"
  /\ phase' = IF phase = "pool" THEN "joined" ELSE "crashed"
  /\ UNCHANGED <<inputs, file_list, tasks, order, labels, output, log,
                 tmpFiles, console, run, prevOutput>>

\* list.sort(key=lambda x: x[0]): a stable sort, so x goes after every
\* label whose file name is not greater.
RECURSIVE Insert(_, _)
Insert(sorted, x) ==
  IF sorted = <<>> THEN <<x>>
  ELSE IF StrLess(x.file_name, Head(sorted).file_name) THEN <<x>> \o sorted
  ELSE <<Head(sorted)>> \o Insert(Tail(sorted), x)

\* SortLabels as it would be without the sort.
SortLabelsNone(ls) == ls

RECURSIVE SortLabels(_)
SortLabels(ls) ==
  IF ls = <<>> THEN <<>>
  ELSE Insert(SortLabels(SubSeq(ls, 1, Len(ls) - 1)), ls[Len(ls)])

Sort ==
  /\ phase = "joined"
  /\ labels' = SortLabels(labels)
  /\ phase' = "sorted"
  /\ UNCHANGED <<inputs, file_list, tasks, order, output, log, tmpFiles,
                 console, run, prevOutput>>

Header(cfg) ==
  <<"file_name">> \o (IF cfg.family THEN <<"family">> ELSE <<>>)
                  \o (IF cfg.cpu THEN <<"CPU">> ELSE <<>>)
                  \o (IF cfg.first_seen THEN <<"first_seen">> ELSE <<>>)
                  \o (IF cfg.size THEN <<"size">> ELSE <<>>)
                  \o (IF cfg.md5 THEN <<"md5">> ELSE <<>>)

\* label[k] or ''
OrEmpty(v) == IF Truthy(v) THEN v ELSE Str("")

\* Row as it would be if a value that is not there had no cell.
RowSkipsEmpty(cfg, label) ==
  <<Str(label.file_name)>>
    \o (IF cfg.family /\ label.family # None THEN <<OrEmpty(label.family)>> ELSE <<>>)
    \o (IF cfg.cpu /\ label.cpu # None THEN <<OrEmpty(label.cpu)>> ELSE <<>>)
    \o (IF cfg.first_seen /\ label.first_seen # None
        THEN <<OrEmpty(label.first_seen)>> ELSE <<>>)
    \o (IF cfg.size /\ label.size # None THEN <<Str(PyStr(label.size))>> ELSE <<>>)
    \o (IF cfg.md5 /\ label.md5 # None THEN <<OrEmpty(label.md5)>> ELSE <<>>)

\* The list row of one label: its cells are Python values.
Row(cfg, label) ==
  <<Str(label.file_name)>>
    \o (IF cfg.family THEN <<OrEmpty(label.family)>> ELSE <<>>)
    \o (IF cfg.cpu THEN <<OrEmpty(label.cpu)>> ELSE <<>>)
    \o (IF cfg.first_seen THEN <<OrEmpty(label.first_seen)>> ELSE <<>>)
    \o (IF cfg.size
        THEN <<IF label.size # None THEN Str(PyStr(label.size)) ELSE Str("")>>
        ELSE <<>>)
    \o (IF cfg.md5 THEN <<OrEmpty(label.md5)>> ELSE <<>>)

\* ",".join(row) raises TypeError when an item of row is no str.
Joinable(row) == \A k \in DOMAIN row : row[k].t = "str"

RowLine(row) == Join([k \in DOMAIN row |-> row[k].s])

\* The lines written for the labels from the k-th on; the first row that
\* cannot be joined ends the writing.
RECURSIVE RowLines(_, _, _)
RowLines(cfg, ls, k) ==
  IF k > Len(ls) \/ ~Joinable(Row(cfg, ls[k])) THEN <<>>
  ELSE <<RowLine(Row(cfg, ls[k]))>> \o RowLines(cfg, ls, k + 1)

\* The output file is opened for writing (and so emptied), the header is
\* written and then one line per label.
Write ==
  /\ phase = "sorted"
  /\ output' = <<Join(Header(config))>> \o RowLines(config, labels, 1)
  /\ IF \A k \in DOMAIN labels : Joinable(Row(config, labels[k]))
     THEN /\ phase' = "written"
          /\ console' = Append(console, "Execution Time")
     ELSE /\ phase' = "failed"
          /\ console' = console
  /\ UNCHANGED <<inputs, file_list, tasks, order, labels, log, tmpFiles, run,
                 prevOutput>>

\* The last two lines of run.
Finish ==
  /\ phase = "written"
  /\ phase' = "done"
  /\ console' = console \o <<"Output file path", "Error log path">>
  /\ UNCHANGED <<inputs, file_list, tasks, order, labels, output, log,
                 tmpFiles, run, prevOutput>>

\* The program is started again on the same tree, with the same
\* configuration and the same environment: the files it left are there.
Rerun ==
  /\ run = 1
  /\ phase \in {"done", "failed", "crashed", "exited"}
  /\ run' = 2
  /\ prevOutput' = output
  /\ phase' = "start"
  /\ file_list' = <<>>
  /\ tasks' = <<>>
  /\ order' = <<>>
  /\ labels' = <<>>
  /\ console' = <<>>
  /\ UNCHANGED <<inputs, output, log, tmpFiles>>

(***************************************************************************)
(* The inputs the model draws from.                                        *)
(***************************************************************************)
JsonPaths == {"d/a.json", "d/b.json", "d/c.json", "d/s/a.json"}
OtherPaths == {"d/n.txt"}

RecA == Dict({<<"size", Num(10)>>, <<"md5", Str("aa")>>})
RecC == Dict({<<"size", Num(5)>>})

CpuParts ==
  { {},
    {<<"additional_info", Num(5)>>},
    {<<"additional_info", Dict({<<"gandelf", Dict({})>>})>>},
    {<<"additional_info",
       Dict({<<"gandelf",
               Dict({<<"header", Dict({<<"machine", Str("ARM")>>})>>})>>})>>} }
SeenParts == { {}, {<<"first_seen", Str("d1")>>}, {<<"first_seen", Num(7)>>} }
SizeParts == { {}, {<<"size", Num(10)>>}, {<<"size", Num(0)>>} }
Md5Parts == { {}, {<<"md5", Str("aa")>>}, {<<"md5", None>>} }

ObjectRecords ==
  {Dict(c \cup s \cup z \cup m) :
     c \in CpuParts, s \in SeenParts, z \in SizeParts, m \in Md5Parts}

\* JSON texts whose value is no object.
OtherRecords == {List, Str("x"), Num(1), None}

RecFull ==
  Dict({<<"additional_info",
          Dict({<<"gandelf",
                  Dict({<<"header", Dict({<<"machine", Str("ARM")>>})>>})>>})>>,
        <<"first_seen", Str("d1")>>, <<"size", Num(10)>>, <<"md5", Str("aa")>>})
RecBadCpu ==
  Dict({<<"additional_info", Num(5)>>, <<"size", Num(10)>>, <<"md5", Str("aa")>>})

WideContents ==
  {Json(d) : d \in ObjectRecords \cup OtherRecords} \cup {Malformed, Unreadable}
NarrowContents == {Json(RecA), Json(RecC), Malformed}
\* The contents each path may have.
NarrowContentsAt ==
  [p \in JsonPaths |->
     IF p = "d/c.json" THEN {Json(RecC), Malformed} ELSE {Json(RecA), Malformed}]
WideContentsAt == [p \in JsonPaths |-> WideContents]
\* A record whose first_seen is a number, in one file of the tree.
RecNumSeen == Dict({<<"first_seen", Num(7)>>, <<"size", Num(10)>>})
NumSeenContentsAt ==
  [p \in JsonPaths |->
     IF p = "d/b.json" THEN {Json(RecA), Json(RecNumSeen)}
     ELSE {Json(RecA), Malformed}]
\* The contents met with every outcome of the enrichment.
EnrichedContents == {Json(RecA), Json(RecC), Json(RecFull), Json(RecBadCpu)}

NarrowConfigs ==
  {Config(FALSE, FALSE, FALSE, TRUE, TRUE), Config(TRUE, FALSE, FALSE, TRUE, TRUE)}

AllTmpw == {"ok", "reread_fail", "open_fail", "write_fail"}
AllAv == {"zero", "nonzero", "oserror"}
AllOut == {"s1 fam", "s1", "", " s1  fam x "}
AllRm == {"ok", "fail"}

RECURSIVE SumFaults(_, _)
SumFaults(e, paths) ==
  IF paths = {} THEN 0
  ELSE LET p == CHOOSE q \in paths : TRUE
       IN  Faults(e[p]) + SumFaults(e, paths \ {p})

\* The state when the program starts: an input path that is a directory
\* holding some of the paths, or one that is a file or does not exist.
InitRun(pathSets, contents, enriched, configs, pools, budget, raising) ==
  /\ config \in configs
  /\ poolSize \in pools
  /\ inputKind \in {"dir", "file", "missing"}
  /\ IF inputKind = "dir"
     THEN \E S \in pathSets :
            \E t \in [S -> UNION {contents[p] : p \in S}] :
              \E R \in {X \in SUBSET S : Cardinality(X) <= raising} :
                /\ tree = [p \in S \cup OtherPaths |->
                             IF p \in S THEN t[p] ELSE Malformed]
                /\ env \in [S -> EnvsFor(config.family, Json(RecA), enriched.tmpw,
                                         enriched.av, enriched.out, enriched.rm)
                                 \cup {[Nominal EXCEPT !.raises = TRUE]}]
                /\ \A p \in S :
                     /\ t[p] \in contents[p]
                     /\ env[p].raises = (p \in R)
                     /\ env[p].raises => env[p] = [Nominal EXCEPT !.raises = TRUE]
                     /\ ~env[p].raises =>
                          env[p] \in (IF t[p] \in enriched.contents
                                      THEN EnvsFor(config.family, t[p],
                                                   enriched.tmpw, enriched.av,
                                                   enriched.out, enriched.rm)
                                      ELSE {Nominal})
                /\ SumFaults(env, S) <= budget
     ELSE /\ tree = [p \in {} |-> Malformed]
          /\ env = [p \in {} |-> Nominal]
  /\ phase = "start"
  /\ file_list = <<>>
  /\ tasks = <<>>
  /\ order = <<>>
  /\ labels = <<>>
  /\ output = <<>>
  /\ log = EmptyBag
  /\ tmpFiles = {}
  /\ console = <<>>
  /\ run = 1
  /\ prevOutput = <<>>

PathSets == {S \in SUBSET JsonPaths : Cardinality(S) <= MaxFiles}

\* The outcomes of the enrichment a run may meet, and the contents that
\* meet them.
Enrichment(contents, tmpw, av, out, rm) ==
  [contents |-> contents, tmpw |-> tmpw, av |-> av, out |-> out, rm |-> rm]

NarrowEnrichment ==
  Enrichment(NarrowContents, {"ok", "write_fail"}, {"zero", "nonzero"},
             {"s1 fam"}, AllRm)
WideEnrichment == Enrichment(EnrichedContents, AllTmpw, AllAv, AllOut, AllRm)
NoEnrichmentFault == Enrichment({}, {"ok"}, {"zero"}, {"s1 fam"}, {"ok"})

\* Runs over trees of several files, with at most MaxFaults failures of
\* the environment and no error escaping a task.
Init ==
  InitRun(PathSets, NarrowContentsAt, NarrowEnrichment, NarrowConfigs,
          1 .. MaxWorkers, MaxFaults, 0)

\* Runs over one file, with every record, configuration and outcome of the
\* enrichment.
InitOne ==
  InitRun({{"d/a.json"}}, WideContentsAt, WideEnrichment, AllConfigs, {1}, 4, 0)

\* Runs in which an error may escape one task.
InitFault ==
  InitRun(PathSets, NarrowContentsAt, NoEnrichmentFault, NarrowConfigs,
          1 .. MaxWorkers, MaxFaults, 1)

Next ==
  \/ Construct
  \/ Discover
  \/ Submit
  \/ \E i \in DOMAIN tasks : TaskStart(i)
  \/ \E i \in DOMAIN tasks : TaskWriteTmp(i)
  \/ \E i \in DOMAIN tasks : TaskClassify(i)
  \/ \E i \in DOMAIN tasks : TaskExtract(i)
  \/ \E i \in DOMAIN tasks : Collect(i)
  \/ PoolExit
  \/ Sort
  \/ Write
  \/ Finish

NextTwice == Next \/ Rerun

Spec == Init /\ [][Next]_vars
SpecOne == InitOne /\ [][Next]_vars
SpecFault == InitFault /\ [][Next]_vars
SpecTwice == Init /\ [][NextTwice]_vars

\* Runs with family labeling on the largest pool, each followed by a second
\* run over the tree and the temporary files the first one left.
InitRerun ==
  InitRun(PathSets, NarrowContentsAt, NarrowEnrichment,
          {Config(TRUE, FALSE, FALSE, TRUE, TRUE)}, {MaxWorkers}, MaxFaults, 0)
SpecRerun == InitRerun /\ [][NextTwice]_vars

\* The runs of Spec and those of SpecOne together.
InitAll == Init \/ InitOne
SpecAll == InitAll /\ [][Next]_vars

\* Runs over trees of several files, one of which may hold a number under
\* first_seen, with family labeling and no failure of the environment.
InitFair ==
  InitRun(PathSets, NumSeenContentsAt, NoEnrichmentFault,
          {Config(TRUE, FALSE, TRUE, TRUE, TRUE)}, 1 .. MaxWorkers, 0, 0)

\* Those runs under fair scheduling: the main thread and the workers of
\* the executor are threads the system goes on scheduling, so a run does not
\* stop while a step of one of them can be taken.
SpecFair == InitFair /\ [][Next]_vars /\ WF_vars(Next)

(***************************************************************************)
(* Notions the properties use.                                             *)
(***************************************************************************)
\* The write of the output table has completed in this run.
Written == phase \in {"written", "done"}

\* The rows of the output table: its lines after the header.
Rows == IF output = <<>> THEN <<>> ELSE Tail(output)

\* The first cell of a line: the text before its first comma.
RECURSIVE FirstCellFrom(_, _)
FirstCellFrom(line, i) ==
  IF i > Len(line) \/ Char(line, i) = "," THEN SubSeq(line, 1, i - 1)
  ELSE FirstCellFrom(line, i + 1)

RowId(line) == FirstCellFrom(line, 1)

\* The .json files of the tree.
RecordFiles == {p \in DOMAIN tree : EndsWith(p, ".json")}

Identifiers == {FileName(p) : p \in JsonPaths}

RowsOf(x) == Cardinality({k \in DOMAIN Rows : RowId(Rows[k]) = x})

Parsed(p) == tree[p].kind = "json"

Done(i) == i \in DOMAIN tasks /\ tasks[i].pc = "done"

EmptyLabel(p) == Label(FileName(p), None, None, None, None, None)

LoggedFor(p) == \E e \in BagToSet(log) : e.file = p

C2_RowsSortedByFileName ==
  \A j, k \in DOMAIN Rows :
    j < k => ~StrLess(RowId(Rows[k]), RowId(Rows[j]))

\* The table is written after a collection that was not in order.
C2_Witness ==
  /\ Written
  /\ \E j, k \in DOMAIN order :
       /\ j < k
       /\ StrLess(FileName(file_list[order[k]]), FileName(file_list[order[j]]))
  /\ Len(Rows) = Len(order)

(***************************************************************************)
(* C3.  As claimed: a second run over the same tree, with the same         *)
(* configuration and the same environment, writes the table the first run  *)
(* wrote, also when files of different directories share a file name.      *)
(***************************************************************************)
C3_TwoRunsSameTable ==
  (run = 2 /\ phase = "done") => output = prevOutput

(***************************************************************************)
(* Notions of the properties of process_json.                              *)
(***************************************************************************)
Fields == {"cpu", "first_seen", "size", "md5"}

\* The lookup of a field in a record, on its own.
Lookup(data, f) == IF f = "cpu" THEN GetPath(data, CpuPath) ELSE GetItem(data, f)

Requested(f) == config[f]

\* Every requested field of the record is there or lacks a key: no lookup
\* meets a value of the wrong shape.
WellFormed(data) ==
  \A f \in Fields : Requested(f) => Lookup(data, f).exc \in {"none", "KeyError"}

\* The task of p gets to the lookups: no error of the enrichment leaves the
\* body of process_json before them.
ReachesLookups(p) ==
  ~config.family \/ (env[p].tmpw \in {"ok", "reread_fail"} /\ env[p].rm = "ok")

\* The classifier was called for p.
ClassifierCalled(p) == config.family /\ Parsed(p) /\ env[p].tmpw = "ok"

\* A step of the enrichment of p failed.
EnrichmentFailed(p) ==
  \/ env[p].tmpw # "ok"
  \/ env[p].av # "zero"
  \/ Len(Split(env[p].out)) < 2
  \/ env[p].rm # "ok"

C5_MalformedFieldOnlyEmptiesItself ==
  \A i \in DOMAIN tasks :
    LET p == file_list[i]
        data == tree[p].data
    IN  (Done(i) /\ Parsed(p) /\ ReachesLookups(p))
        => \A f \in Fields :
             (Requested(f) /\ Lookup(data, f).exc = "none")
               => tasks[i].res[f] = Lookup(data, f).val

(***************************************************************************)
(* C6.  As claimed: when a step of the enrichment fails, the result has no *)
(* family and holds the record's value for every other requested field.    *)
(***************************************************************************)
C6_EnrichmentFailureKeepsOtherColumns ==
  \A i \in DOMAIN tasks :
    LET p == file_list[i]
        data == tree[p].data
    IN  ( /\ Done(i) /\ config.family /\ Parsed(p) /\ data.t = "dict"
          /\ WellFormed(data) /\ EnrichmentFailed(p) )
        => /\ tasks[i].res.family = None
           /\ \A f \in Fields :
                (Requested(f) /\ Lookup(data, f).exc = "none")
                  => tasks[i].res[f] = Lookup(data, f).val

(***************************************************************************)
(* C7.  As claimed: once a task with family labeling has ended, its        *)
(* temporary file does not exist, also when the write of the file failed   *)
(* after the file was created (the removal itself not failing).            *)
(***************************************************************************)
C7_TmpFileGoneWhenTaskDone ==
  \A i \in DOMAIN tasks :
    (Done(i) /\ config.family /\ env[file_list[i]].rm = "ok")
      => TmpPath(file_list[i]) \notin tmpFiles

(***************************************************************************)
(* C8.  As claimed: when a task raised an error, the run is not aborted,   *)
(* and once the collection is over there is a result for every file.       *)
(***************************************************************************)
C8_UncaughtTaskErrorIsolated ==
  (\E i \in DOMAIN tasks : tasks[i].exc) =>
    /\ phase # "crashed"
    /\ phase \in {"joined", "sorted", "written", "done"}
         => Len(labels) = Len(file_list)

(***************************************************************************)
(* C9.  When the classifier was called for a file, the family of the       *)
(* result is the second token of its output exactly when it exited with    *)
(* zero and wrote two tokens or more; it is None otherwise, and an error   *)
(* is logged for the file when the exit was not zero or the call failed.   *)
(***************************************************************************)
C9_FamilyIsSecondToken ==
  \A i \in DOMAIN tasks :
    LET p == file_list[i]
        tokens == Split(env[p].out)
    IN  (Done(i) /\ ClassifierCalled(p))
        => /\ tasks[i].res.family =
                IF env[p].av = "zero" /\ Len(tokens) >= 2
                THEN Str(tokens[2]) ELSE None
           /\ env[p].av # "zero" =>
                \E e \in BagToSet(log) :
                  /\ e.file = p
                  /\ e.msg \in {"AVClass command execution error",
                                "AVClass processing error"}

\* The classifier wrote " s1  fam x " and the family is "fam".
C9_Witness ==
  \E i \in DOMAIN tasks :
    /\ Done(i) /\ ClassifierCalled(file_list[i])
    /\ env[file_list[i]].av = "zero"
    /\ env[file_list[i]].out = " s1  fam x "
    /\ tasks[i].res.family = Str("fam")

(***************************************************************************)
(* C10.  When the input path is no directory the program prints a message  *)
(* and exits before it lists a file, submits a task or writes the table;   *)
(* and nothing else ends a run before the write of the table: a run over   *)
(* a directory stops only after the write, whatever failed for its files.  *)
(***************************************************************************)
C10_OnlyBadInputPathAborts ==
  /\ inputKind # "dir" =>
       /\ phase \in {"start", "exited"}
       /\ file_list = <<>> /\ tasks = <<>> /\ output = <<>>
       /\ phase = "exited" =>
            console = <<"Error: Input path must be a directory.">>
  /\ phase \in {"exited", "crashed"} => inputKind # "dir"
  /\ (inputKind = "dir" /\ phase \notin {"done", "failed"}) => ENABLED Next

\* The program has exited for a path that does not exist.
C10_Witness == phase = "exited" /\ inputKind = "missing"

(***************************************************************************)
(* Notions of the properties of the table's columns.                       *)
(***************************************************************************)
\* The cells of a line: the texts between its commas.
RECURSIVE CellsFrom(_, _, _)
CellsFrom(line, i, cur) ==
  IF i > Len(line) THEN <<cur>>
  ELSE IF Char(line, i) = "," THEN <<cur>> \o CellsFrom(line, i + 1, "")
  ELSE CellsFrom(line, i + 1, cur \o Char(line, i))

Cells(line) == CellsFrom(line, 1, "")

\* The columns after file_name, in the order of the table, each with the
\* toggle of the configuration that requests it and the field it shows.
Columns ==
  <<[name |-> "family", field |-> "family"], [name |-> "CPU", field |-> "cpu"],
    [name |-> "first_seen", field |-> "first_seen"],
    [name |-> "size", field |-> "size"], [name |-> "md5", field |-> "md5"]>>

RequestedColumns == SelectSeq(Columns, LAMBDA c : config[c.field])

Faithful(v) ==
  CASE v.t = "none" -> ""
    [] v.t = "num" -> Decimal(v.n)
    [] v.t = "str" -> v.s
    [] OTHER -> PyStr(v)

C13_EveryValueWrittenFaithfully ==
  /\ phase # "failed"
  /\ Written =>
       \A r \in DOMAIN Rows :
         Cells(Rows[r]) =
           <<labels[r].file_name>>
             \o [k \in DOMAIN RequestedColumns |->
                   Faithful(labels[r][RequestedColumns[k].field])]

(***************************************************************************)
(* C14.  No task ends with an exception, whatever the outcome of opening   *)
(* and parsing the file, writing the temporary file, calling the           *)
(* classifier and removing the temporary file: a task that has ended holds *)
(* a tuple whose first element is the file name of its path.  Once the     *)
(* collection is over, labels holds the tuple of every task exactly once:  *)
(* as many results as paths discovered and tasks submitted.                *)
(***************************************************************************)
\* The collection loop and the executor are left.
Collected == phase \in {"joined", "sorted", "written", "failed", "done"}

C14_OneResultPerTask ==
  /\ phase \notin {"raising", "crashed"}
  /\ \A i \in DOMAIN tasks :
       /\ ~tasks[i].exc
       /\ Done(i) => tasks[i].res.file_name = FileName(file_list[i])
  /\ Collected =>
       /\ Len(tasks) = Len(file_list)
       /\ Len(labels) = Len(file_list)
       /\ \A i \in DOMAIN tasks :
            Cardinality({k \in DOMAIN labels : labels[k] = tasks[i].res})
              = Cardinality({j \in DOMAIN tasks : tasks[j].res = tasks[i].res})

\* Three files are collected: one is no JSON and the temporary file of
\* another could not be removed.
C14_Witness ==
  /\ Collected
  /\ Len(file_list) = 3 /\ Len(labels) = 3
  /\ \E i, j \in DOMAIN tasks :
       /\ ~Parsed(file_list[i])
       /\ Parsed(file_list[j]) /\ config.family /\ env[file_list[j]].rm = "fail"

(***************************************************************************)
(* C15.  While labels is sorted and the table is written, and ever after,  *)
(* every path has its task, every task has ended, no task is running and   *)
(* the result of every task has been collected, each once.                 *)
(***************************************************************************)
C15_SortAndWriteAfterCollection ==
  Collected =>
    /\ Len(tasks) = Len(file_list)
    /\ \A i \in DOMAIN tasks : Done(i)
    /\ Running = {}
    /\ Len(order) = Len(tasks)
    /\ \A i \in DOMAIN tasks : \E k \in DOMAIN order : order[k] = i

\* Three tasks on one worker, collected in an order that is not that of
\* their submission, and labels is sorted.
C15_Witness ==
  /\ phase = "sorted"
  /\ poolSize = 1
  /\ Len(tasks) = 3
  /\ order # <<1, 2, 3>>

(***************************************************************************)
(* C16.  Without family labeling no temporary file ever exists, no task is *)
(* at or past the call of the classifier, nothing of the enrichment is     *)
(* logged and no task or result has a family.  The other fields of a       *)
(* result are those the lookups give for the record and the other toggles, *)
(* the same without family labeling as with it when the enrichment         *)
(* succeeds.                                                               *)
(***************************************************************************)
EnrichmentMessages ==
  {"Processing", "Error reading JSON file", "AVClass command execution error",
   "AVClass processing error"}

C16_NoEnrichmentWithoutFamily ==
  /\ ~config.family =>
       /\ tmpFiles = {}
       /\ \A e \in BagToSet(log) : e.msg \notin EnrichmentMessages
       /\ \A i \in DOMAIN tasks :
            /\ tasks[i].pc \notin {"tmp", "ran"}
            /\ tasks[i].family = None
            /\ tasks[i].res.family = None
  /\ \A i \in DOMAIN tasks :
       LET p == file_list[i]
           x == ExtractFields([config EXCEPT !.family = FALSE], tree[p].data)
       IN  (Done(i) /\ Parsed(p) /\ (~config.family \/ ~EnrichmentFailed(p)))
           => \A f \in Fields : tasks[i].res[f] = x[f]

\* Without family labeling the task of the record with every field has
\* ended with the four fields.
C16_Witness ==
  /\ ~config.family
  /\ Done(1)
  /\ tree[file_list[1]] = Json(RecFull)
  /\ tasks[1].res = Label("a", None, Str("ARM"), Str("d1"), Num(10), Str("aa"))

(***************************************************************************)
(* C17.  As claimed: under fair scheduling every run over a directory,     *)
(* whatever its files and the size of the pool, comes to the state in      *)
(* which every task has run and was collected, the table is written and    *)
(* the run has ended.                                                      *)
(***************************************************************************)
C17_EveryRunWritesTheTable ==
  inputKind = "dir" =>
    <>( /\ phase = "done"
        /\ \A i \in DOMAIN file_list : Done(i)
        /\ Len(order) = Len(file_list)
        /\ Len(output) = 1 + Len(file_list) )

(***************************************************************************)
(* C18.  The paths of file_list are pairwise distinct and so are their     *)
(* temporary paths, each the path followed by ".tmp".  While a task is      *)
(* between the creation and the removal of its temporary file, the file    *)
(* at its temporary path exists, whatever the other tasks do; and a        *)
(* temporary file that exists is that of a task which is at that place or  *)
(* has ended without removing it.                                          *)
(***************************************************************************)
C18_TmpFilesArePrivate ==
  /\ \A i, j \in DOMAIN file_list :
       i # j => /\ file_list[i] # file_list[j]
                /\ file_list[i] \o ".tmp" # file_list[j] \o ".tmp"
  /\ \A i \in DOMAIN tasks :
       tasks[i].pc = "tmp" => (file_list[i] \o ".tmp") \in tmpFiles
  /\ \A t \in tmpFiles :
       \E i \in DOMAIN tasks :
         /\ t = file_list[i] \o ".tmp"
         /\ tasks[i].pc \in {"tmp", "done"}

\* Two tasks for files of the same file name are both between the creation
\* and the removal of their temporary files.
C18_Witness ==
  \E i, j \in DOMAIN tasks :
    /\ i # j
    /\ FileName(file_list[i]) = FileName(file_list[j])
    /\ tasks[i].pc = "tmp" /\ tasks[j].pc = "tmp"
    /\ Cardinality(tmpFiles) = 2

(***************************************************************************)
(* C19.  From the submission of the first task on, file_list is the list   *)
(* of the .json files of the tree, each once, and it stays so to the end   *)
(* of the run; no path of it is a temporary file or the temporary path of  *)
(* another; and no file a task creates or removes is a file of the tree,   *)
(* so every record is there at the end as it was.                          *)
(***************************************************************************)
C19_InputSetFixed ==
  /\ phase \in {"start", "ready", "exited"} => tasks = <<>>
  /\ phase \notin {"start", "ready", "exited"} =>
       /\ {file_list[i] : i \in DOMAIN file_list} = RecordFiles
       /\ Len(file_list) = Cardinality(RecordFiles)
  /\ \A i \in DOMAIN file_list :
       /\ file_list[i] \notin tmpFiles
       /\ \A j \in DOMAIN file_list : file_list[i] # file_list[j] \o ".tmp"
  /\ tmpFiles \cap DOMAIN tree = {}

\* A second run has ended over a tree in which the first run left a
\* temporary file: the file was there when the second run listed the tree.
C19_Witness ==
  /\ run = 2
  /\ phase = "done"
  /\ "d/a.json.tmp" \in tmpFiles
  /\ Len(file_list) = 3

====
